---- MODULE Spec2Model ----
(***************************************************************************)
(* Bill Receipt Manager (src/webapp/main.py): upload_bill, monthly_report  *)
(* and the delivery of the generated report file.                          *)
(*                                                                         *)
(* Text values (dates, month keys, file names, paths) are sequences of     *)
(* one-character strings, so that LIKE matching, slicing, concatenation    *)
(* and text ordering are computed character by character as the code and   *)
(* SQLite compute them.                                                    *)
(***************************************************************************)
EXTENDS Integers, Sequences, FiniteSets, TLC

VARIABLES
    bills,      \* the bills table: a sequence of rows, row i has id i
    images,     \* user_data/images: stored file name -> stored content
    now,        \* the UTC clock, in half seconds
    report,     \* the outcome of the most recent monthly_report call
    files,      \* user_data/report_*.pdf: path -> sequence of written chunks
    req,        \* the report requests in flight: handler and response state
    scale       \* the image handed to thumbnail and the size it ends with

vars == <<bills, images, now, report, files, req, scale>>

----------------------------------------------------------------------------
(* Bounds *)

MaxBills == 2      \* rows the bills table may hold
MaxClock == 2      \* half seconds the clock may advance
MaxReqs  == 2      \* concurrent report requests

----------------------------------------------------------------------------
(* Text *)

\* The characters dates and month keys are made of, in ASCII order
\* (the order SQLite's BINARY collation compares TEXT values by).
Alphabet == <<"%", "-", "0", "1", "2", "3", "4", "5", "6", "7", "8", "9", "_">>

Code(c) == CHOOSE i \in 1..Len(Alphabet) : Alphabet[i] = c

\* s < t as SQLite orders two TEXT values (memcmp, shorter prefix first).
RECURSIVE LexLess(_, _)
LexLess(s, t) ==
    IF t = <<>> THEN FALSE
    ELSE IF s = <<>> THEN TRUE
    ELSE IF Head(s) = Head(t) THEN LexLess(Tail(s), Tail(t))
    ELSE Code(Head(s)) < Code(Head(t))

\* str LIKE pat in SQLite: % matches any run of characters, _ matches one
\* character, any other character matches itself.
RECURSIVE Like(_, _)
Like(pat, str) ==
    IF pat = <<>> THEN str = <<>>
    ELSE IF Head(pat) = "%"
         THEN Like(Tail(pat), str) \/ (str # <<>> /\ Like(pat, Tail(str)))
    ELSE /\ str # <<>>
         /\ (Head(pat) = "_" \/ Head(pat) = Head(str))
         /\ Like(Tail(pat), Tail(str))

\* str(n) for a non-negative integer.
RECURSIVE Str(_)
Str(n) ==
    LET digit(d) == <<"0", "1", "2", "3", "4", "5", "6", "7", "8", "9">>[d + 1]
    IN  IF n < 10 THEN <<digit(n)>> ELSE Str(n \div 10) \o <<digit(n % 10)>>

\* bill_date[:7]
MonthKey(bill_date) ==
    SubSeq(bill_date, 1, IF Len(bill_date) < 7 THEN Len(bill_date) ELSE 7)

----------------------------------------------------------------------------
(* Inputs *)

Users == {1, 12}            \* ids of two registered users

D0302 == <<"2", "0", "2", "4", "-", "0", "3", "-", "0", "2">>
D0315 == <<"2", "0", "2", "4", "-", "0", "3", "-", "1", "5">>
D0401 == <<"2", "0", "2", "4", "-", "0", "4", "-", "0", "1">>
Dates == {D0302, D0315, D0401}

K03        == <<"2", "0", "2", "4", "-", "0", "3">>
K04        == <<"2", "0", "2", "4", "-", "0", "4">>
KYear      == <<"2", "0", "2", "4">>
KEmpty     == <<>>
KWild      == <<"2", "0", "2", "4", "-", "0", "_">>
KOwnerLike == <<"2", "_", "2", "0", "2", "4", "-", "0", "3">>
MonthKeys  == {K03, K04, KYear, KEmpty, KWild}

FileNames == {<<"a">>}

Junk == [kind |-> "junk", size |-> <<0, 0>>]       \* bytes that are no image
Photo(w, h) == [kind |-> "photo", size |-> <<w, h>>]
ImageInputs == {Junk, Photo(1110, 600)}

Meta == [amount |-> "12.5", bill_time |-> "10:30", shop |-> "Grocer"]

----------------------------------------------------------------------------
(* upload_bill *)

\* f"{datetime.utcnow().timestamp():.0f}": the clock rounded to a whole
\* second, halves to the even neighbour.
Stamp(t) ==
    LET q == t \div 2
    IN  IF t % 2 = 0 THEN q ELSE IF q % 2 = 0 THEN q ELSE q + 1

UniqueName(t, filename) == Str(Stamp(t)) \o <<"_">> \o filename

\* The call of an authenticated user with decodable base64: the image is
\* written to save_path (replacing a file of that name) and the row is
\* inserted.  The uploaded_at column is never read and is left out.
UploadBill(user_id, filename, image, bill_date, m) ==
    /\ Len(bills) < MaxBills
    /\ LET unique_name == UniqueName(now, filename)
       IN  /\ images' = (unique_name :> image) @@ images
           /\ bills' = Append(bills,
                  [user_id |-> user_id, filename |-> unique_name,
                   amount |-> m.amount, bill_date |-> bill_date,
                   bill_time |-> m.bill_time, shop |-> m.shop])
    /\ UNCHANGED <<now, report, files, req, scale>>

Tick ==
    /\ now < MaxClock
    /\ now' = now + 1
    /\ UNCHANGED <<bills, images, report, files, req, scale>>

----------------------------------------------------------------------------
(* monthly_report: selection and ordering *)

\* WHERE user_id = ? AND bill_date LIKE f"{year_month}%"
SelectBills(user_id, year_month) ==
    {i \in 1..Len(bills) :
        /\ bills[i].user_id = user_id
        /\ Like(year_month \o <<"%">>, bills[i].bill_date)}

Orderings(S) ==
    {s \in [1..Cardinality(S) -> S] :
        \A i, j \in 1..Cardinality(S) : i # j => s[i] # s[j]}

\* The rows in ascending id order only.
OrderByRowid(S) ==
    {s \in Orderings(S) : \A i, j \in 1..Cardinality(S) : i < j => s[i] < s[j]}

\* ORDER BY bill_date: every arrangement of the selected rows in which
\* bill_date never decreases; SQLite leaves the order of equal keys open.
OrderByBillDate(S) ==
    {s \in Orderings(S) :
        \A i, j \in 1..Cardinality(S) :
            i < j => ~LexLess(bills[s[j]].bill_date, bills[s[i]].bill_date)}

----------------------------------------------------------------------------
(* monthly_report: page layout *)

max_width  == 555
max_height == 600

\* The box size whatever the proportions of the image.
ThumbnailStretchSizes(size) ==
    IF max_width >= size[1] /\ max_height >= size[2] THEN {size}
    ELSE {<<max_width, max_height>>}

\* Image.thumbnail((max_width, max_height)): an image that fits is left
\* alone; otherwise one side becomes the box side and the other is
\* round_aspect of the scaled side: its floor or its ceiling, whichever
\* gives the ratio nearer to the original, and at least 1.  The two
\* distances are compared in floating point, so when they are exactly
\* equal either candidate can come out.
ThumbnailSizes(size) ==
    LET w == size[1]
        h == size[2]
        x == max_width
        y == max_height
        Dist(n) == IF n < 0 THEN -n ELSE n
        Max1(n) == IF n < 1 THEN 1 ELSE n
        Ceil(a, b) == IF a % b = 0 THEN a \div b ELSE (a \div b) + 1
        Nearer(fl, ce, kf, kc) ==
            IF kf < kc THEN {fl} ELSE IF kc < kf THEN {ce} ELSE {fl, ce}
        \* round_aspect(y * aspect, key = |aspect - n / y|)
        newx == LET fl == (y * w) \div h
                    ce == Ceil(y * w, h)
                IN  {Max1(n) : n \in Nearer(fl, ce, Dist(w * y - fl * h),
                                                    Dist(w * y - ce * h))}
        \* round_aspect(x / aspect, key = 0 if n == 0 else |aspect - x / n|)
        newy == LET fl == (x * h) \div w
                    ce == Ceil(x * h, w)
                IN  IF fl = 0 THEN {1}
                    ELSE {Max1(n) : n \in Nearer(fl, ce,
                                        Dist(w * fl - x * h) * ce,
                                        Dist(w * ce - x * h) * fl)}
    IN  IF x >= w /\ y >= h THEN {size}
        ELSE IF x * h >= y * w THEN {<<nx, y>> : nx \in newx}
        ELSE {<<x, ny>> : ny \in newy}

\* The size thumbnail gives an image whose two candidates do not tie (the
\* smaller one otherwise).
Thumbnail(size) ==
    CHOOSE s \in ThumbnailSizes(size) :
        \A t \in ThumbnailSizes(size) : s[1] <= t[1] /\ s[2] <= t[2]

\* No substitute image when the stored one cannot be read.
ResolveImageNoFallback(filename) ==
    IF filename \in DOMAIN images /\ images[filename].kind = "photo"
    THEN [src |-> "photo", size |-> images[filename].size]
    ELSE [src |-> "none", size |-> <<0, 0>>]

\* Image.open(path).convert("RGB"), or the 200x200 gray image on any
\* exception.
ResolveImage(filename) ==
    IF filename \in DOMAIN images /\ images[filename].kind = "photo"
    THEN [src |-> "photo", size |-> images[filename].size]
    ELSE [src |-> "placeholder", size |-> <<200, 200>>]

PageText(bill) ==
    <<  <<"Shop: ", bill.shop>>,
        <<"Amount: ", bill.amount>>,
        <<"Date: ", bill.bill_date, " ", bill.bill_time>>  >>

LayoutPage(bill) ==
    LET bill_img == ResolveImage(bill.filename)
    IN  [kind     |-> "receipt",
         size     |-> <<595, 842>>,
         text     |-> PageText(bill),
         text_at  |-> <<20, 20>>,
         image    |-> [src |-> bill_img.src, size |-> Thumbnail(bill_img.size)],
         image_at |-> <<20, 150>>]

EmptyPage ==
    [kind     |-> "empty",
     size     |-> <<595, 842>>,
     text     |-> << <<"No bills found for this month.">> >>,
     text_at  |-> <<20, 400>>,
     image    |-> [src |-> "none", size |-> <<0, 0>>],
     image_at |-> <<0, 0>>]

\* The pages list after the loop and the "if not pages" branch.
BuildPages(rows) ==
    IF rows = <<>> THEN <<EmptyPage>>
    ELSE [k \in 1..Len(rows) |-> LayoutPage(bills[rows[k]])]

----------------------------------------------------------------------------
(* monthly_report: the artifact *)

\* Without the owner in the name.
ReportPathNoOwner(user_id, year_month) ==
    <<"r", "e", "p", "o", "r", "t", "_">> \o year_month
        \o <<".", "p", "d", "f">>

\* os.path.join("user_data", f"report_{user_id}_{year_month}.pdf")
ReportPath(user_id, year_month) ==
    <<"r", "e", "p", "o", "r", "t", "_">> \o Str(user_id) \o <<"_">>
        \o year_month \o <<".", "p", "d", "f">>

Trailer == [EmptyPage EXCEPT !.kind = "trailer", !.text = <<>>]

\* pages[0].save(path, save_all=True, append_images=pages[1:]): one chunk
\* per page, in list order, then the trailer with the cross-reference
\* table of all pages.  Each chunk is tagged with the request that wrote
\* it and the length of the whole output.
Serialize(writer, pages) ==
    [k \in 1..(Len(pages) + 1) |->
        [writer |-> writer, index |-> k, of |-> Len(pages) + 1,
         page |-> IF k <= Len(pages) THEN pages[k] ELSE Trailer,
         xref |-> IF k <= Len(pages) THEN <<>> ELSE pages]]

----------------------------------------------------------------------------
(* monthly_report as one call: Spec *)

NoReport ==
    [made |-> FALSE, user_id |-> 0, year_month |-> <<>>, rows |-> <<>>,
     pages |-> <<>>, path |-> <<>>, bytes |-> <<>>]

MonthlyReport(user_id, year_month) ==
    /\ \E rows \in OrderByBillDate(SelectBills(user_id, year_month)) :
         LET pages == BuildPages(rows)
         IN  report' = [made |-> TRUE, user_id |-> user_id,
                        year_month |-> year_month, rows |-> rows,
                        pages |-> pages,
                        path |-> ReportPath(user_id, year_month),
                        bytes |-> Serialize(0, pages)]
    /\ UNCHANGED <<bills, images, now, files, req, scale>>

Idle == [pc |-> "idle", user_id |-> 0, year_month |-> <<>>, path |-> <<>>,
         doc |-> <<>>, clen |-> 0, body |-> <<>>]

NoScale == [src |-> <<0, 0>>, out |-> <<0, 0>>, done |-> FALSE]

Init ==
    /\ bills = <<>>
    /\ images = <<>>
    /\ now = 0
    /\ report = NoReport
    /\ files = <<>>
    /\ req = [r \in 1..MaxReqs |-> Idle]
    /\ scale = NoScale

Upload ==
    \E u \in Users, f \in FileNames, img \in ImageInputs, d \in Dates :
        UploadBill(u, f, img, d, Meta)

Report ==
    \E u \in Users, ym \in MonthKeys : MonthlyReport(u, ym)

Next == Upload \/ Tick \/ Report

Spec == Init /\ [][Next]_vars

----------------------------------------------------------------------------
(* monthly_report as a request whose file is streamed back: SpecConc       *)
(* The handler body has no await, so it runs as one step of the event      *)
(* loop; FileResponse then stats the path and reads it chunk by chunk,     *)
(* and other requests run between those steps.                             *)

ConcKeys == {K03, KOwnerLike}

MonthlyReportRequest(r, user_id, year_month) ==
    /\ req[r].pc = "idle"
    /\ \E rows \in OrderByBillDate(SelectBills(user_id, year_month)) :
         LET path == ReportPath(user_id, year_month)
             full == Serialize(r, BuildPages(rows))
         IN  /\ files' = (path :> full) @@ files
             /\ req' = [req EXCEPT ![r] =
                    [pc |-> "stat", user_id |-> user_id,
                     year_month |-> year_month, path |-> path,
                     doc |-> full, clen |-> 0, body |-> <<>>]]
    /\ UNCHANGED <<bills, images, now, report, scale>>

\* The same call when the write raises after k chunks: open(path, "w+b")
\* has truncated the file and the chunks written so far stay in it.  Only
\* a file that did not exist before the call is removed again by save.
MonthlyReportSaveFails(r, user_id, year_month) ==
    /\ req[r].pc = "idle"
    /\ \E rows \in OrderByBillDate(SelectBills(user_id, year_month)) :
         LET path == ReportPath(user_id, year_month)
             full == Serialize(r, BuildPages(rows))
         IN  /\ \E k \in 0..(Len(full) - 1) :
                  IF path \in DOMAIN files
                  THEN files' = (path :> SubSeq(full, 1, k)) @@ files
                  ELSE files' = files
             /\ req' = [req EXCEPT ![r] =
                    [pc |-> "failed", user_id |-> user_id,
                     year_month |-> year_month, path |-> path,
                     doc |-> full, clen |-> 0, body |-> <<>>]]
    /\ UNCHANGED <<bills, images, now, report, scale>>

\* FileResponse: os.stat(path) for the Content-Length header.
StatFile(r) ==
    /\ req[r].pc = "stat"
    /\ req[r].path \in DOMAIN files
    /\ req' = [req EXCEPT ![r].pc = "send",
                          ![r].clen = Len(files[req[r].path])]
    /\ UNCHANGED <<bills, images, now, report, files, scale>>

\* FileResponse: read the next chunk at the current offset and send it;
\* the response ends at end of file.
ReadChunk(r) ==
    /\ req[r].pc = "send"
    /\ LET data == files[req[r].path]
           off  == Len(req[r].body)
       IN  IF off < Len(data)
           THEN req' = [req EXCEPT ![r].body = Append(@, data[off + 1])]
           ELSE req' = [req EXCEPT ![r].pc = "done"]
    /\ UNCHANGED <<bills, images, now, report, files, scale>>

ConcUpload == \E u \in Users : UploadBill(u, <<"a">>, Photo(1110, 600), D0302, Meta)

ConcReport ==
    \E r \in 1..MaxReqs, u \in Users, ym \in ConcKeys :
        MonthlyReportRequest(r, u, ym)

ConcSaveFails ==
    \E r \in 1..MaxReqs, u \in Users, ym \in ConcKeys :
        MonthlyReportSaveFails(r, u, ym)

ConcStat == \E r \in 1..MaxReqs : StatFile(r)

ConcRead == \E r \in 1..MaxReqs : ReadChunk(r)

NextConc == ConcUpload \/ ConcReport \/ ConcStat \/ ConcRead

SpecConc == Init /\ [][NextConc]_vars

NextFail == ConcUpload \/ ConcReport \/ ConcSaveFails \/ ConcStat \/ ConcRead

SpecFail == Init /\ [][NextFail]_vars

----------------------------------------------------------------------------
(* thumbnail over a range of image sizes: SpecScale *)

Sides == {1, 2, 3, 7, 14, 200, 554, 555, 556, 599, 600, 601, 800, 1110, 1200,
          1201, 4000}

InitScale ==
    /\ bills = <<>>
    /\ images = <<>>
    /\ now = 0
    /\ report = NoReport
    /\ files = <<>>
    /\ req = [r \in 1..MaxReqs |-> Idle]
    /\ \E w \in Sides, h \in Sides :
         scale = [src |-> <<w, h>>, out |-> <<w, h>>, done |-> FALSE]

ApplyThumbnail ==
    /\ ~scale.done
    /\ \E out \in ThumbnailSizes(scale.src) :
         scale' = [scale EXCEPT !.out = out, !.done = TRUE]
    /\ UNCHANGED <<bills, images, now, report, files, req>>

SpecScale == InitScale /\ [][ApplyThumbnail]_vars

----------------------------------------------------------------------------
(* Properties *)

\* A step in which monthly_report returned a new result.
Reported == report' # report

Abs(n) == IF n < 0 THEN -n ELSE n

IsDigit(c) == c \in {"0", "1", "2", "3", "4", "5", "6", "7", "8", "9"}

\* exactly YYYY-MM
WellFormedKey(k) ==
    /\ Len(k) = 7
    /\ \A i \in {1, 2, 3, 4, 6, 7} : IsDigit(k[i])
    /\ k[5] = "-"

\* The three metadata lines of a receipt: shop, amount, date and time.
ReceiptLines(b) ==
    <<  <<"Shop: ", b.shop>>,
        <<"Amount: ", b.amount>>,
        <<"Date: ", b.bill_date, " ", b.bill_time>>  >>

\* The bill_date printed on a receipt page.
DateOf(page) == page.text[3][2]

\* A byte sequence that is the whole output of one save.
CompleteDoc(b) ==
    /\ b # <<>>
    /\ \A k \in 1..Len(b) :
         /\ b[k].index = k
         /\ b[k].of = Len(b)
         /\ b[k].writer = b[1].writer

\* The content of a byte sequence, without the writer tags.
Content(b) == [k \in 1..Len(b) |-> [b[k] EXCEPT !.writer = 0]]

\* C1: under any interleaving of report requests for the same owner and
\* month, the bytes returned to every request are the complete document of
\* exactly one request's generation, never a partial file and never a
\* mixture of two writers' outputs.
C1_ResponseIsOneCompleteDocument ==
    \A r \in 1..MaxReqs :
        req[r].pc = "done" =>
            \E q \in 1..MaxReqs :
                /\ req[q].pc \in {"stat", "send", "done"}
                /\ Content(req[r].body) = Content(req[q].doc)

\* C2: when the write of the report fails part-way the request fails
\* explicitly and the artifact location never holds a partially written
\* document: every file at a report path is a complete document.
C2_NoPartialArtifact ==
    /\ \A p \in DOMAIN files : CompleteDoc(files[p])
    /\ \A r \in 1..MaxReqs : req[r].pc = "failed" => req[r].body = <<>>

\* C3: for every owner and month key the report has exactly one page per
\* stored receipt of that owner whose bill_date[:7] equals the key and no
\* other page; with no such receipt it is the single no-receipts page.
C3_OnePagePerReceiptOfMonth ==
    [][Reported =>
        LET r == report'
            M == {i \in 1..Len(bills) :
                    /\ bills[i].user_id = r.user_id
                    /\ MonthKey(bills[i].bill_date) = r.year_month}
        IN  IF M = {} THEN r.pages = <<EmptyPage>>
            ELSE /\ Len(r.pages) = Cardinality(M)
                 /\ \E s \in Orderings(M) :
                      \A k \in 1..Cardinality(M) :
                          /\ r.pages[k].kind = "receipt"
                          /\ r.pages[k].text = ReceiptLines(bills[s[k]])]_vars

\* C4: the pages of a report are in non-decreasing bill_date order (the
\* order of the stored text values), whatever the upload order, and the
\* serialized document holds the pages in that same order.
C4_PagesInBillDateOrder ==
    report.made =>
        /\ \A k \in 1..(Len(report.pages) - 1) :
             ~LexLess(DateOf(report.pages[k + 1]), DateOf(report.pages[k]))
        /\ Len(report.bytes) = Len(report.pages) + 1
        /\ \A k \in 1..Len(report.pages) :
             report.bytes[k].index = k /\ report.bytes[k].page = report.pages[k]

C4_Witness ==
    /\ report.made
    /\ Len(report.rows) = 2
    /\ report.rows[1] > report.rows[2]
    /\ LexLess(DateOf(report.pages[1]), DateOf(report.pages[2]))

\* C5: a month key that is not exactly YYYY-MM matches no receipt, so the
\* report is the one-page empty-result document whatever is stored.
C5_MalformedKeyMatchesNothing ==
    [][(Reported /\ ~WellFormedKey(report'.year_month)) =>
        report'.pages = <<EmptyPage>>]_vars

\* C6: a matching receipt whose stored image is missing or undecodable
\* still gets its own page, with its shop, amount, date and time lines in
\* that order and the 200x200 placeholder as its image; every other receipt
\* keeps its photograph and the page count is the number of matching rows.
C6_UnreadableImageGetsPlaceholder ==
    [][Reported =>
        LET r == report'
            n == Cardinality(SelectBills(r.user_id, r.year_month))
        IN  /\ Len(r.rows) = n
            /\ Len(r.pages) = IF n = 0 THEN 1 ELSE n
            /\ \A k \in 1..n :
                 LET b == bills[r.rows[k]]
                     readable == /\ b.filename \in DOMAIN images
                                 /\ images[b.filename].kind = "photo"
                 IN  /\ r.pages[k].text = ReceiptLines(b)
                     /\ IF readable
                        THEN r.pages[k].image.src = "photo"
                        ELSE r.pages[k].image =
                                 [src |-> "placeholder", size |-> <<200, 200>>]]_vars

C6_Witness ==
    /\ report.made
    /\ \E k \in 1..Len(report.pages) : report.pages[k].image.src = "placeholder"
    /\ \E k \in 1..Len(report.pages) : report.pages[k].image.src = "photo"

\* C7: for a source image of w x h the size placed on the page is at most
\* 555 x 600, never larger than the source on either side, the source size
\* itself when that fits, and otherwise within one unit per axis of the
\* source scaled by min(555 / w, 600 / h).
C7_ThumbnailFitsBoxKeepsRatio ==
    scale.done =>
        LET w  == scale.src[1]
            h  == scale.src[2]
            w2 == scale.out[1]
            h2 == scale.out[2]
        IN  /\ 1 <= w2 /\ w2 <= 555 /\ w2 <= w
            /\ 1 <= h2 /\ h2 <= 600 /\ h2 <= h
            /\ (w <= 555 /\ h <= 600) => scale.out = scale.src
            /\ ~(w <= 555 /\ h <= 600) =>
                 IF 555 * h <= 600 * w
                 THEN w2 = 555 /\ Abs(h2 * w - 555 * h) < w
                 ELSE h2 = 600 /\ Abs(w2 * h - 600 * w) < h

C7_Witness ==
    /\ scale.done
    /\ scale.src = <<4000, 7>>
    /\ scale.out = <<555, 1>>

\* C8: requests of two distinct owners never use the same artifact path,
\* whatever month keys they submit, and no request is sent a chunk that a
\* request of another owner wrote.
C8_ArtifactsAreOwnerScoped ==
    /\ \A r1, r2 \in 1..MaxReqs :
         (/\ req[r1].pc # "idle"
          /\ req[r2].pc # "idle"
          /\ req[r1].user_id # req[r2].user_id) => req[r1].path # req[r2].path
    /\ \A r \in 1..MaxReqs :
         \A k \in 1..Len(req[r].body) :
             req[req[r].body[k].writer].user_id = req[r].user_id
    /\ \A p \in DOMAIN files :
         \A k \in 1..Len(files[p]) : req[files[p][k].writer].path = p

C8_Witness ==
    \E r1, r2 \in 1..MaxReqs :
        /\ req[r1].pc = "done" /\ req[r1].user_id = 1
        /\ req[r1].year_month = KOwnerLike
        /\ req[r2].pc = "done" /\ req[r2].user_id = 12
        /\ req[r2].year_month = K03

\* C9: receipts of one report that have equal bill_date appear in
\* ascending record-identifier order.
C9_TiesInIdentifierOrder ==
    [][Reported =>
        \A i, j \in 1..Len(report'.rows) :
            (/\ i < j
             /\ bills[report'.rows[i]].bill_date
                    = bills[report'.rows[j]].bill_date)
                => report'.rows[i] < report'.rows[j]]_vars

\* C10: every upload stores its image under a name no earlier upload
\* used, so no two receipt records refer to the same stored image.
C10_UploadNamesAreUnique ==
    \A i, j \in 1..Len(bills) :
        i # j => bills[i].filename # bills[j].filename

====
